---- MODULE Spec2Model ----
(***************************************************************************)
(* Model of the migration orchestration engine of src/server.js:          *)
(* retryRequest (retry policy), migrateUser (user resolver and cache),    *)
(* migrateComments (comment replicator) and the POST /api/migrate-ticket  *)
(* handler (ticket migration pipeline).                                    *)
(*                                                                         *)
(* The server is a single-threaded event loop: code between two awaits    *)
(* runs atomically.  Every action below is one such run: the arrival of a *)
(* request, the arrival of an HTTP response (success, 429, other error)   *)
(* or the expiry of a timer, followed by all the code that runs until the *)
(* next await.                                                             *)
(*                                                                         *)
(* The helpdesk platform is outside the program: an HTTP request that is   *)
(* answered with a failure leaves the accounts unchanged, a successful     *)
(* creation adds the user or ticket when its answer arrives, and a search  *)
(* returns the users of the target account with the given address.         *)
(* Variables and fields marked "history" record what happened and are      *)
(* never read by the modelled code.                                        *)
(***************************************************************************)
EXTENDS Integers, Sequences, FiniteSets, TLC

\* ------------------------------------------------------------------ bounds
\* Number of migrate-ticket requests the service receives in one run.
MaxRequests == 2
\* Longest comment list the source account returns.
MaxComments == 3

\* ------------------------------------------------------- program constants
\* retryRequest(requestFunc, maxRetries = 3)
maxRetries == 3
\* parseInt(error.response.headers['retry-after'] || '60')
DefaultRetryAfter == <<"6", "0">>
\* await sleep(300) between two comments
CommentDelayMs == 300

\* ------------------------------------------------------------- input sets
\* Request slots: two requests can be in progress at the same time.
Procs == {1, 2}

\* JS null (ids of the helpdesk platform are positive numbers; null and 0 are
\* both falsy in `if (requesterId)`).
Null == 0
\* A header that is missing (undefined) or empty: both are falsy.
Absent == <<>>

TicketIds == {5}
UserIds == {1}
Subjects == {"s1"}
Roles == {"admin", "agent", "end-user"}
Channels == {"api", "web"}

\* Subdomains are strings; "-" may occur in them.
AccountPairs ==
  { [src |-> <<"a">>, tgt |-> <<"b", "-", "c">>],
    [src |-> <<"a", "-", "b">>, tgt |-> <<"c">>] }

Options == [dryRun : BOOLEAN, migrateUsers : BOOLEAN, migrateComments : BOOLEAN]

\* Values of the retry-after header of a 429 response.
RetryAfterHeaders == {Absent, <<"2">>}

\* All comment lists of at most MaxComments comments; a comment is its channel
\* (body and public flag are copied through unchanged and are identified by
\* the comment's position).
CommentLists == UNION { [1..n -> Channels] : n \in 0..MaxComments }

\* ---------------------------------------------------------- pure helpers
Digits == <<"0", "1", "2", "3", "4", "5", "6", "7", "8", "9">>
IsDigit(c) == \E i \in 1..Len(Digits) : Digits[i] = c
DigitValue(c) == (CHOOSE i \in 1..Len(Digits) : Digits[i] = c) - 1

\* parseInt result for a string without leading digits.
NaN == -1

\* Value of the longest prefix of decimal digits of s, read left to right.
RECURSIVE ParseDigits(_, _)
ParseDigits(s, acc) ==
  IF s = <<>> \/ ~IsDigit(Head(s)) THEN acc
  ELSE ParseDigits(Tail(s), acc * 10 + DigitValue(Head(s)))

\* parseInt(str): the leading decimal digits of the string, NaN if there is none.
ParseInt(s) ==
  IF s = <<>> \/ ~IsDigit(Head(s)) THEN NaN ELSE ParseDigits(s, 0)

\* error.response.headers['retry-after'] || '60': a missing or empty header
\* is falsy and is replaced by the default.
RetryAfterSeconds(hdr) ==
  ParseInt(IF hdr = Absent THEN DefaultRetryAfter ELSE hdr)

\* Decimal digits of a non-negative number, as template strings print it.
RECURSIVE ToString10(_)
ToString10(n) ==
  IF n < 10 THEN <<Digits[n + 1]>>
  ELSE ToString10(n \div 10) \o <<Digits[(n % 10) + 1]>>

RECURSIVE Pow2(_)
Pow2(n) == IF n = 0 THEN 1 ELSE 2 * Pow2(n - 1)

\* sleep(seconds * 1000): the delay of the timer set by setTimeout; a NaN
\* delay is coerced to 1 ms by the runtime.
SleepMs(seconds) == IF seconds = NaN THEN 1 ELSE seconds * 1000

\* Math.pow(2, attempt) * 1000
BackoffMs(att) == SleepMs(Pow2(att))

\* `${userId}-${source.subdomain}-${target.subdomain}`
CacheKey(userId, acct) ==
  ToString10(userId) \o <<"-">> \o acct.src \o <<"-">> \o acct.tgt

\* Mutant of TargetRole: the source role is passed through unchanged.
TargetRoleKeep(role) == role

\* role: user.role === 'admin' ? 'agent' : user.role
TargetRole(role) == IF role = "admin" THEN "agent" ELSE role

\* Mutant of IsSystemComment: no comment is skipped.
IsSystemCommentNever(channel) == FALSE

\* comment.via?.channel === 'api'
IsSystemComment(channel) == channel = "api"

\* A user's email in the source account (one address per user id).
EmailOf(userId) == userId

\* ------------------------------------------------------------------ state
VARIABLES
  userCache,    \* const userCache = new Map(): cache key -> target user id
  tgtUsers,     \* users of each target account, in creation order
  tgtTickets,   \* number of tickets created in each target account
  st,           \* per request slot: the locals of the handler in progress
  createLog,    \* history: the user-creation calls issued, in order
  resolveLog,   \* history: the migrateUser calls that returned, in order
  nreq          \* history: number of requests received

vars == <<userCache, tgtUsers, tgtTickets, st, createLog, resolveLog, nreq>>

NoTicket == [subject |-> "", requester_id |-> Null]
NoUser == [email |-> Null, role |-> ""]
NoReq == [ticketId |-> Null,
          acct |-> [src |-> <<>>, tgt |-> <<>>],
          options |-> [dryRun |-> FALSE, migrateUsers |-> FALSE,
                       migrateComments |-> FALSE]]
NoData == [subject |-> "", requester_id |-> Null, email |-> Null, role |-> "",
           comment |-> 0]
\* req.body of POST /proxy: the credentials (the empty sequence stands for a
\* missing or empty one, both falsy) and the path (possibly undefined). For
\* the server configured from the environment the credentials are the
\* ZENDESK_* variables.
NoBody == [subdomain |-> Absent, email |-> Absent, token |-> Absent,
           url |-> [defined |-> FALSE, str |-> <<>>]]
NoResult == [status |-> Null, success |-> FALSE, dryRun |-> FALSE,
             ticketId |-> Null, targetTicketId |-> Null, subject |-> ""]

\* Locals of a slot with no request in it.
Idle ==
  [pc |-> "idle",          \* the await the handler is suspended at
   handler |-> "none",     \* the route of the request
   req |-> NoReq,          \* req.body
   body |-> NoBody,        \* req.body of POST /proxy
   srcResp |-> "none",     \* POST /api/test: sourceResponse ("value" or
                           \*   "undefined")
   attempt |-> 0,          \* retryRequest: the loop counter
   phase |-> "none",       \* retryRequest: "call" (awaiting requestFunc()),
                           \*   "rateWait" / "backoff" (awaiting sleep)
   sleepMs |-> 0,          \* delay of the pending timer
   ticket |-> NoTicket,    \* sourceTicket
   user |-> NoUser,        \* migrateUser: user
   found |-> <<>>,         \* migrateUser: searchResponse.data.users (their ids)
   requesterId |-> Null,   \* requesterId
   newTicketId |-> Null,   \* newTicket.id
   comments |-> <<>>,      \* migrateComments: comments
   ci |-> 0,               \* migrateComments: position of the loop
   result |-> NoResult,    \* the response sent to the caller
   nresults |-> 0,         \* history: number of responses sent
   outcomes |-> <<>>,      \* history: outcomes of the attempts of the latest
                           \*   retryRequest call that got an answer
   failed |-> FALSE,       \* history: an HTTP request of this handler got an
                           \*   answer other than success
   lastRes |-> "none",     \* history: how the latest finished retryRequest
                           \*   call ended: "value", "undefined", "throw"
   nended |-> 0,           \* history: number of remote calls that ended
   sent |-> NoData,        \* data of the HTTP request in flight
   calls |-> <<>>]         \* history: the remote calls issued, in order, each
                           \*   with the position of the comment it carries

\* An environment: the request slots in use, the number of requests received,
\* the requests clients send and the data the source account returns.
EnvOf(slots, requests, options, accts, roles, lists) ==
  [slots |-> slots, requests |-> requests, options |-> options,
   accts |-> accts, roles |-> roles, lists |-> lists]

\* The process starts with an empty cache; each target account in use holds
\* no user, or already holds a user with the address of a source user.
Init(e) ==
  /\ userCache = <<>>
  /\ tgtUsers \in [{a.tgt : a \in e.accts} ->
        { <<>> } \cup { <<[id |-> 10, email |-> EmailOf(u), role |-> "end-user"]>>
                        : u \in UserIds }]
  /\ tgtTickets = [t \in {a.tgt : a \in e.accts} |-> 0]
  /\ st = [p \in Procs |-> Idle]
  /\ createLog = <<>>
  /\ resolveLog = <<>>
  /\ nreq = 0

\* ------------------------------------------- the code between two awaits
Min(S) == CHOOSE x \in S : \A y \in S : x <= y

\* Mutant of CacheSet: null is stored in place of the identifier.
CacheSetNull(cache, key, id) ==
  [k \in DOMAIN cache \cup {key} |-> IF k = key THEN Null ELSE cache[k]]

\* userCache.set(key, id)
CacheSet(cache, key, id) ==
  [k \in DOMAIN cache \cup {key} |-> IF k = key THEN id ELSE cache[k]]

\* retryRequest(() => axios(...)) is entered: attempt = 1 and the first HTTP
\* request is sent.
Begin(l, site, data) ==
  [l EXCEPT !.pc = site, !.attempt = 1, !.phase = "call", !.sleepMs = 0,
            !.sent = data,
            !.calls = Append(@, [site |-> site, comment |-> data.comment])]

\* res.json(...) / res.status(...).json(...): the handler ends.
Respond(l, res) ==
  [l EXCEPT !.pc = "done", !.attempt = 0, !.phase = "none", !.sleepMs = 0,
            !.sent = NoData, !.result = res, !.nresults = @ + 1]

\* res.json({success: true, dryRun: true, sourceTicket: {id, subject}, ...})
DryRunResult(l) ==
  [status |-> 200, success |-> TRUE, dryRun |-> TRUE,
   ticketId |-> l.req.ticketId, targetTicketId |-> Null,
   subject |-> l.ticket.subject]

\* res.json({success: true, sourceTicketId, targetTicketId, subject})
SuccessResult(l) ==
  [status |-> 200, success |-> TRUE, dryRun |-> FALSE,
   ticketId |-> l.req.ticketId, targetTicketId |-> l.newTicketId,
   subject |-> l.ticket.subject]

\* catch (error) { res.status(500).json({success: false, error, ticketId}) }
FailureResult(l) ==
  [status |-> 500, success |-> FALSE, dryRun |-> FALSE,
   ticketId |-> l.req.ticketId, targetTicketId |-> Null, subject |-> ""]

\* The ticket data sent on creation; requester_id is set only when
\* requesterId is truthy.
TicketData(l, rid) ==
  [NoData EXCEPT !.subject = l.ticket.subject,
                 !.requester_id = IF rid # Null THEN rid ELSE Null]

\* Mutant of AfterResolve: the dry-run response is sent without `return`, and
\* the handler goes on to create the ticket.
AfterResolveFallThrough(l, rid) ==
  LET l1 == [l EXCEPT !.requesterId = rid, !.user = NoUser, !.found = <<>>]
      l2 == IF l.req.options.dryRun
              THEN [l1 EXCEPT !.result = DryRunResult(l1), !.nresults = @ + 1]
              ELSE l1
  IN Begin(l2, "createTicket", TicketData(l2, rid))

\* Steps 3-5 of the handler, after migrateUser returned rid (or was skipped).
AfterResolve(l, rid) ==
  LET l1 == [l EXCEPT !.requesterId = rid, !.user = NoUser, !.found = <<>>] IN
  IF l.req.options.dryRun
    THEN Respond(l1, DryRunResult(l1))
    ELSE Begin(l1, "createTicket", TicketData(l1, rid))

\* Step 6 done (or skipped): the success response.
Succeed(l) == Respond(l, SuccessResult(l))

\* Mutant of NextComment: the loop starts again at the first comment.
NextCommentAgain(l, i) ==
  LET rest == {j \in 1..Len(l.comments) : ~IsSystemComment(l.comments[j])} IN
  IF rest = {} THEN Succeed([l EXCEPT !.ci = Len(l.comments) + 1])
  ELSE Begin([l EXCEPT !.ci = Min(rest)], "putComment",
             [NoData EXCEPT !.comment = Min(rest)])

\* for (const comment of comments), from position i on: system comments are
\* skipped, the next other comment is sent; the loop ends after the last.
NextComment(l, i) ==
  LET rest == {j \in i..Len(l.comments) : ~IsSystemComment(l.comments[j])} IN
  IF rest = {} THEN Succeed([l EXCEPT !.ci = Len(l.comments) + 1])
  ELSE Begin([l EXCEPT !.ci = Min(rest)], "putComment",
             [NoData EXCEPT !.comment = Min(rest)])

\* Whether the handler has issued a remote call at one of the sites.
Called(l, sites) == \E i \in 1..Len(l.calls) : l.calls[i].site \in sites

\* An entry of resolveLog: migrateUser(userId, source, target) returned ret;
\* remote and created tell whether it issued remote calls and a creation call,
\* found is what the search in the target returned.
Resolved(l, ret) ==
  [userId |-> l.ticket.requester_id, acct |-> l.req.acct, ret |-> ret,
   remote |-> Called(l, {"getUser"}), created |-> Called(l, {"createUser"}),
   found |-> l.found]

\* History: the outcome of one more attempt of the current retryRequest call.
Answer(l, kind) ==
  [l EXCEPT !.outcomes = IF l.attempt = 1 THEN <<kind>> ELSE Append(@, kind),
            !.failed = @ \/ kind # "ok"]

\* Mutant of AfterCommentError: the error ends the loop.
AfterCommentErrorAbort(l) == Succeed(l)

\* catch (error) inside the comment loop: the error is logged and the loop
\* goes on with the next comment.
AfterCommentError(l) == NextComment(l, l.ci + 1)

\* Statuses of the error responses of the remote; Null: no response at all
\* (network failure).
ErrStatuses == {Null, 404, 503}

\* res.status(error.response?.status || 500).json({error, details})
ProxyFailure(status) ==
  [NoResult EXCEPT !.status = IF status # Null THEN status ELSE 500]

\* res.status(400).json({error: ...}) of POST /proxy
ProxyRejected == [NoResult EXCEPT !.status = 400]

\* res.json(response.data) of POST /proxy
ProxyResult == [NoResult EXCEPT !.status = 200]

\* res.json({success: true, source: {...}, target: {...}})
TestSuccess == [NoResult EXCEPT !.status = 200, !.success = TRUE]

\* res.status(401).json({success: false, error: 'Connection failed', ...})
TestFailure == [NoResult EXCEPT !.status = 401]

\* History: the remote call in progress ends.
Ended(l, how) == [l EXCEPT !.lastRes = how, !.nended = @ + 1]

\* Mutant of OnFatal: a failed ticket creation is swallowed and the handler
\* goes on.
OnFatalSwallowCreate(l) ==
  IF l.pc = "createTicket"
    THEN (IF l.req.options.migrateComments
            THEN Begin(l, "getComments", NoData) ELSE Succeed(l))
    ELSE Respond(l, FailureResult(l))

\* catch (error) of the handler: the 500 response.
OnFatal(l) == Respond(l, FailureResult(l))

\* Mutant of OnResolveError: the error leaves migrateUser and reaches the
\* catch of the handler.
OnResolveErrorFatal(l) == Respond(l, FailureResult(l))

\* catch (error) of migrateUser: return null; the handler goes on with
\* requesterId = null.
OnResolveError(l) == AfterResolve(l, Null)

\* An exception reaches the code around the retryRequest call at l.pc: the
\* error thrown by retryRequest, or the TypeError of reading `.data` of
\* undefined.
Raise(p, l) ==
  CASE l.pc \in {"getTicket", "createTicket"} ->
         \* catch of the handler
         /\ st' = [st EXCEPT ![p] = OnFatal(l)]
         /\ UNCHANGED resolveLog
    [] l.pc \in {"getUser", "searchUser", "createUser"} ->
         \* catch of migrateUser: return null
         /\ st' = [st EXCEPT ![p] = OnResolveError(l)]
         /\ resolveLog' = Append(resolveLog, Resolved(l, Null))
    [] l.pc = "getComments" ->
         \* outer catch of migrateComments: it returns normally
         /\ st' = [st EXCEPT ![p] = Succeed(l)]
         /\ UNCHANGED resolveLog
    [] l.pc = "putComment" ->
         \* inner catch of migrateComments: on to the next comment
         /\ st' = [st EXCEPT ![p] = AfterCommentError(l)]
         /\ UNCHANGED resolveLog
    [] l.pc \in {"proxy", "envProxy"} ->
         \* catch of POST /proxy: the status of the error's response if it
         \* has one (a TypeError has none)
         /\ \E s \in (IF l.lastRes = "throw" THEN ErrStatuses ELSE {Null}) :
              st' = [st EXCEPT ![p] =
                       Respond(l, IF l.pc = "proxy" THEN ProxyFailure(s)
                                  ELSE ProxyFailure(Null))]
         /\ UNCHANGED resolveLog
    [] l.pc \in {"testSource", "testTarget"} ->
         \* catch of POST /api/test
         /\ st' = [st EXCEPT ![p] = Respond(l, TestFailure)]
         /\ UNCHANGED resolveLog

\* await sleep(300) after a comment was sent.
Pace(l) == [l EXCEPT !.pc = "pace", !.attempt = 0, !.phase = "none",
                     !.sent = NoData, !.sleepMs = CommentDelayMs]

\* retryRequest returned undefined (its loop ended without return or throw).
\* Every caller but the comment loop reads `.data` of the result; POST
\* /api/test reads it only after both calls.
ReturnUndefined(p, l) ==
  CASE l.pc = "putComment" ->
         /\ st' = [st EXCEPT ![p] = Pace(l)]
         /\ UNCHANGED resolveLog
    [] l.pc = "testSource" ->
         /\ st' = [st EXCEPT ![p] =
                     Begin([l EXCEPT !.srcResp = "undefined"], "testTarget",
                           NoData)]
         /\ UNCHANGED resolveLog
    [] OTHER -> Raise(p, l)

\* ---------------------------------------------------------------- actions
Free(q) == st[q].pc \in {"idle", "done"}

\* POST /api/migrate-ticket arrives (in the first free slot): the handler runs
\* up to its first await, the GET of the source ticket.
Receive(p, e) ==
  /\ p \in e.slots
  /\ Free(p)
  /\ p = Min({q \in e.slots : Free(q)})
  /\ nreq < e.requests
  /\ \E tid \in TicketIds, acct \in e.accts, opts \in e.options :
       st' = [st EXCEPT ![p] =
                Begin([Idle EXCEPT !.handler = "migrate",
                                   !.req = [ticketId |-> tid, acct |-> acct,
                                            options |-> opts]],
                      "getTicket", NoData)]
  /\ nreq' = nreq + 1
  /\ UNCHANGED <<userCache, tgtUsers, tgtTickets, createLog, resolveLog>>

\* An HTTP request is answered 429 with some retry-after header: the wait is
\* started; `continue` then runs the loop's attempt++.
Http429(p) ==
  /\ st[p].phase = "call"
  /\ \E hdr \in RetryAfterHeaders :
       st' = [st EXCEPT ![p] =
                [Answer(st[p], "r429") EXCEPT
                   !.phase = "rateWait",
                   !.sleepMs = SleepMs(RetryAfterSeconds(hdr))]]
  /\ UNCHANGED <<userCache, tgtUsers, tgtTickets, createLog, resolveLog, nreq>>

\* Mutant of IsLastAttempt: the error is thrown one attempt too late.
IsLastAttemptLate(att) == att = maxRetries + 1

\* if (attempt === maxRetries) throw error
IsLastAttempt(att) == att = maxRetries

\* An HTTP request fails with another error: thrown on the last attempt,
\* followed by the backoff otherwise.
HttpErr(p) ==
  LET l == Answer(st[p], "err") IN
  /\ st[p].phase = "call"
  /\ IF IsLastAttempt(st[p].attempt)
       THEN Raise(p, Ended(l, "throw"))
       ELSE /\ st' = [st EXCEPT ![p] =
                        [l EXCEPT !.phase = "backoff",
                                  !.sleepMs = BackoffMs(l.attempt)]]
            /\ UNCHANGED resolveLog
  /\ UNCHANGED <<userCache, tgtUsers, tgtTickets, createLog, nreq>>

\* The value of attempt after a wait that followed a 429 (`continue` runs the
\* for statement's attempt++) and after a backoff (end of the loop body).
AttemptAfter(l) == l.attempt + 1

\* The timer of a wait of retryRequest expires: attempt++ and the loop test;
\* the request is sent again, or the loop ends and the function returns
\* undefined.
SleepDone(p) ==
  LET l == [st[p] EXCEPT !.attempt = AttemptAfter(st[p]), !.sleepMs = 0] IN
  /\ st[p].phase \in {"rateWait", "backoff"}
  /\ IF l.attempt <= maxRetries
       THEN /\ st' = [st EXCEPT ![p] = [l EXCEPT !.phase = "call"]]
            /\ UNCHANGED resolveLog
       ELSE ReturnUndefined(p, Ended(l, "undefined"))
  /\ UNCHANGED <<userCache, tgtUsers, tgtTickets, createLog, nreq>>

\* The timer of the delay between two comments expires.
PaceDone(p) ==
  /\ st[p].pc = "pace"
  /\ st' = [st EXCEPT ![p] = NextComment([st[p] EXCEPT !.sleepMs = 0],
                                          st[p].ci + 1)]
  /\ UNCHANGED <<userCache, tgtUsers, tgtTickets, createLog, resolveLog, nreq>>

\* History: retryRequest returns the response of a successful attempt.
Return(l) == Ended(Answer(l, "ok"), "value")

AtCall(p, site) == st[p].pc = site /\ st[p].phase = "call"

\* Mutant of CacheHas: the cache is never found to hold the key.
CacheHasNever(cache, key) == FALSE

\* if (userCache.has(cacheKey)) return userCache.get(cacheKey)
CacheHas(cache, key) == key \in DOMAIN cache

\* GET tickets/{id}.json answers: sourceTicket is set; with migrateUsers,
\* migrateUser runs up to its first await (or returns the cached id).
GetTicketOk(p) ==
  /\ AtCall(p, "getTicket")
  /\ \E subj \in Subjects, rq \in UserIds :
       LET l == [Return(st[p]) EXCEPT
                   !.ticket = [subject |-> subj, requester_id |-> rq]]
           key == CacheKey(rq, l.req.acct)
       IN IF ~l.req.options.migrateUsers
            THEN /\ st' = [st EXCEPT ![p] = AfterResolve(l, Null)]
                 /\ UNCHANGED resolveLog
            ELSE IF CacheHas(userCache, key)
              THEN /\ st' = [st EXCEPT ![p] = AfterResolve(l, userCache[key])]
                   /\ resolveLog' = Append(resolveLog,
                         Resolved(l, userCache[key]))
              ELSE /\ st' = [st EXCEPT ![p] = Begin(l, "getUser", NoData)]
                   /\ UNCHANGED resolveLog
  /\ UNCHANGED <<userCache, tgtUsers, tgtTickets, createLog, nreq>>

\* GET users/{id}.json answers: the search in the target is sent.
GetUserOk(p, e) ==
  /\ AtCall(p, "getUser")
  /\ \E role \in e.roles :
       LET l == [Return(st[p]) EXCEPT
                   !.user = [email |-> EmailOf(st[p].ticket.requester_id),
                             role |-> role]]
       IN st' = [st EXCEPT ![p] = Begin(l, "searchUser",
                                           [NoData EXCEPT !.email = l.user.email])]
  /\ UNCHANGED <<userCache, tgtUsers, tgtTickets, createLog, resolveLog, nreq>>

\* The users the target account's search returns for an email.
SearchResult(users, email) == SelectSeq(users, LAMBDA u : u.email = email)

\* Mutant of UserExists: one match is not enough.
UserExistsMany(found) == Len(found) > 1

\* searchResponse.data.users?.length > 0
UserExists(found) == Len(found) > 0

\* The user data sent on creation.
NewUser(user) ==
  [NoData EXCEPT !.email = user.email, !.role = TargetRole(user.role)]

\* GET users/search.json answers: an existing user is cached and returned,
\* otherwise the creation is sent.
SearchUserOk(p) ==
  /\ AtCall(p, "searchUser")
  /\ LET found == SearchResult(tgtUsers[st[p].req.acct.tgt], st[p].sent.email)
         l == [Return(st[p]) EXCEPT !.found = [i \in 1..Len(found) |-> found[i].id]]
         key == CacheKey(l.ticket.requester_id, l.req.acct)
     IN IF UserExists(l.found)
          THEN /\ userCache' = CacheSet(userCache, key, l.found[1])
               /\ resolveLog' = Append(resolveLog, Resolved(l, l.found[1]))
               /\ st' = [st EXCEPT ![p] = AfterResolve(l, l.found[1])]
               /\ UNCHANGED createLog
          ELSE /\ st' = [st EXCEPT ![p] = Begin(l, "createUser", NewUser(l.user))]
               /\ createLog' = Append(createLog,
                    [userId |-> l.ticket.requester_id, acct |-> l.req.acct])
               /\ UNCHANGED <<userCache, resolveLog>>
  /\ UNCHANGED <<tgtUsers, tgtTickets, nreq>>

\* POST users.json answers: the target account holds the new user; its id is
\* cached and returned.
CreateUserOk(p) ==
  /\ AtCall(p, "createUser")
  /\ LET l == Return(st[p])
         key == CacheKey(l.ticket.requester_id, l.req.acct)
         tgt == l.req.acct.tgt
         newId == 11 + Len(tgtUsers[tgt])
         sent == l.sent
     IN /\ tgtUsers' = [tgtUsers EXCEPT ![tgt] =
             Append(@, [id |-> newId, email |-> sent.email, role |-> sent.role])]
        /\ userCache' = CacheSet(userCache, key, newId)
        /\ resolveLog' = Append(resolveLog, Resolved(l, newId))
        /\ st' = [st EXCEPT ![p] = AfterResolve(l, newId)]
  /\ UNCHANGED <<tgtTickets, createLog, nreq>>

\* POST tickets.json answers: the target account holds the new ticket; with
\* migrateComments, migrateComments runs up to its first await.
CreateTicketOk(p) ==
  /\ AtCall(p, "createTicket")
  /\ LET tgt == st[p].req.acct.tgt
         l == [Return(st[p]) EXCEPT !.newTicketId = 101 + tgtTickets[tgt]]
     IN /\ tgtTickets' = [tgtTickets EXCEPT ![tgt] = @ + 1]
        /\ st' = [st EXCEPT ![p] =
                    IF l.req.options.migrateComments
                      THEN Begin(l, "getComments", NoData)
                      ELSE Succeed(l)]
  /\ UNCHANGED <<userCache, tgtUsers, createLog, resolveLog, nreq>>

\* GET tickets/{id}/comments.json answers (a missing list is read as []): the
\* loop runs up to the first comment it sends.
GetCommentsOk(p, e) ==
  /\ AtCall(p, "getComments")
  /\ \E cl \in e.lists :
       st' = [st EXCEPT ![p] =
                NextComment([Return(st[p]) EXCEPT !.comments = cl], 1)]
  /\ UNCHANGED <<userCache, tgtUsers, tgtTickets, createLog, resolveLog, nreq>>

\* PUT tickets/{id}.json answers: the delay before the next comment starts.
PutCommentOk(p) ==
  /\ AtCall(p, "putComment")
  /\ st' = [st EXCEPT ![p] = Pace(Return(st[p]))]
  /\ UNCHANGED <<userCache, tgtUsers, tgtTickets, createLog, resolveLog, nreq>>

Step(p, e) ==
  \/ Receive(p, e)
  \/ GetTicketOk(p) \/ GetUserOk(p, e) \/ SearchUserOk(p) \/ CreateUserOk(p)
  \/ CreateTicketOk(p) \/ GetCommentsOk(p, e) \/ PutCommentOk(p)
  \/ HttpErr(p) \/ Http429(p) \/ SleepDone(p) \/ PaceDone(p)

\* One request, over all options, accounts, roles and comment lists.
EnvOne == EnvOf({1}, 1, Options, AccountPairs, Roles, CommentLists)

Next == \E p \in Procs : Step(p, EnvOne)

Spec == Init(EnvOne) /\ [][Next]_vars

\* The requests that resolve the requester, with one role and one comment list.
ResolvingOptions ==
  [dryRun : BOOLEAN, migrateUsers : {TRUE}, migrateComments : BOOLEAN]

\* Several requests, one after the other: a request arrives when the previous
\* one has been answered.
EnvSeq == EnvOf({1}, MaxRequests, ResolvingOptions, AccountPairs,
                {"admin"}, {<<"web">>})

NextSeq == \E p \in Procs : Step(p, EnvSeq)

SpecSeq == Init(EnvSeq) /\ [][NextSeq]_vars

\* Several requests in progress at the same time.
EnvConc ==
  EnvOf(Procs, MaxRequests,
        { [dryRun |-> FALSE, migrateUsers |-> TRUE, migrateComments |-> TRUE] },
        { [src |-> <<"a">>, tgt |-> <<"b", "-", "c">>] },
        {"admin"}, {<<"web">>})

NextConc == \E p \in Procs : Step(p, EnvConc)

SpecConc == Init(EnvConc) /\ [][NextConc]_vars

\* The steps of the handler in slot p that its environment owes it: the
\* answer to the HTTP request in flight and the expiry of the pending timer.
Progress(p) ==
  \/ HttpErr(p) \/ Http429(p) \/ SleepDone(p) \/ PaceDone(p)
  \/ GetTicketOk(p) \/ GetUserOk(p, EnvOne) \/ SearchUserOk(p)
  \/ CreateUserOk(p) \/ CreateTicketOk(p) \/ GetCommentsOk(p, EnvOne)
  \/ PutCommentOk(p)

\* One request, every remote call eventually answered and every timer
\* eventually expired.
SpecLive == Spec /\ \A p \in EnvOne.slots : WF_vars(Progress(p))

\* ------------------------------------------------------------- properties
\* --------------------------------------- POST /proxy and POST /api/test
ApiPrefix == <<"/", "a", "p", "i", "/", "v", "2", "/">>

\* s.startsWith(prefix)
StartsWith(s, prefix) ==
  Len(prefix) <= Len(s) /\ \A i \in 1..Len(prefix) : s[i] = prefix[i]

\* Truthiness of a string (or undefined) in `!x`.
Truthy(x) == x # Absent

\* The paths clients send: none, the empty string, an API path, the prefix
\* without its last slash, a path elsewhere, the prefix not at the start.
Urls ==
  {[defined |-> FALSE, str |-> <<>>]} \cup
  {[defined |-> TRUE, str |-> u] :
     u \in {<<>>, ApiPrefix \o <<"t">>, <<"/", "a", "p", "i", "/", "v", "2">>,
            <<"/", "x">>, <<"x">> \o ApiPrefix}}

Bodies ==
  [subdomain : {Absent, <<"a">>}, email : {Absent, <<"e">>},
   token : {Absent, <<"t">>}, url : Urls]

\* if (!subdomain || !email || !token)
MissingCredentials(b) ==
  ~Truthy(b.subdomain) \/ ~Truthy(b.email) \/ ~Truthy(b.token)

\* POST /proxy arrives (server.js): the credentials and the path are
\* validated, then the request is sent through retryRequest. A missing url
\* makes url.startsWith throw a TypeError, which the catch answers.
ReceiveProxy(p, e) ==
  /\ p \in e.slots /\ Free(p) /\ nreq < e.requests
  /\ \E b \in Bodies :
       LET l == [Idle EXCEPT !.handler = "proxy", !.body = b] IN
       st' = [st EXCEPT ![p] =
                IF MissingCredentials(b) THEN Respond(l, ProxyRejected)
                ELSE IF ~b.url.defined THEN Respond(l, ProxyFailure(Null))
                ELSE IF ~StartsWith(b.url.str, ApiPrefix)
                  THEN Respond(l, ProxyRejected)
                ELSE Begin(l, "proxy", NoData)]
  /\ nreq' = nreq + 1
  /\ UNCHANGED <<userCache, tgtUsers, tgtTickets, createLog, resolveLog>>

\* The request of POST /proxy is answered with success.
ProxyOk(p) ==
  /\ AtCall(p, "proxy")
  /\ st' = [st EXCEPT ![p] = Respond(Return(st[p]), ProxyResult)]
  /\ UNCHANGED <<userCache, tgtUsers, tgtTickets, createLog, resolveLog, nreq>>

\* POST /proxy arrives at the server configured from the environment: only
\* the path is checked, and axios is called directly with the ZENDESK_*
\* variables, set or not.
ReceiveEnvProxy(p, e) ==
  /\ p \in e.slots /\ Free(p) /\ nreq < e.requests
  /\ \E b \in Bodies :
       LET l == [Idle EXCEPT !.handler = "envProxy", !.body = b] IN
       st' = [st EXCEPT ![p] =
                IF ~b.url.defined THEN Respond(l, ProxyFailure(Null))
                ELSE IF ~StartsWith(b.url.str, ApiPrefix)
                  THEN Respond(l, ProxyRejected)
                ELSE [Begin(l, "envProxy", NoData) EXCEPT
                        !.attempt = 0, !.phase = "direct"]]
  /\ nreq' = nreq + 1
  /\ UNCHANGED <<userCache, tgtUsers, tgtTickets, createLog, resolveLog>>

\* The direct request is answered with success.
EnvProxyOk(p) ==
  /\ st[p].pc = "envProxy" /\ st[p].phase = "direct"
  /\ st' = [st EXCEPT ![p] = Respond(Return(st[p]), ProxyResult)]
  /\ UNCHANGED <<userCache, tgtUsers, tgtTickets, createLog, resolveLog, nreq>>

\* The direct request fails (429 included): the catch answers 500.
EnvProxyErr(p) ==
  /\ st[p].pc = "envProxy" /\ st[p].phase = "direct"
  /\ \E kind \in {"err", "r429"} :
       Raise(p, Ended(Answer(st[p], kind), "throw"))
  /\ UNCHANGED <<userCache, tgtUsers, tgtTickets, createLog, nreq>>

\* POST /api/test arrives: the who-am-I request to the source is sent.
ReceiveTest(p, e) ==
  /\ p \in e.slots /\ Free(p) /\ nreq < e.requests
  /\ \E acct \in e.accts :
       st' = [st EXCEPT ![p] =
                Begin([Idle EXCEPT !.handler = "test", !.req.acct = acct],
                      "testSource", NoData)]
  /\ nreq' = nreq + 1
  /\ UNCHANGED <<userCache, tgtUsers, tgtTickets, createLog, resolveLog>>

\* The source answers: the who-am-I request to the target is sent.
TestSourceOk(p) ==
  /\ AtCall(p, "testSource")
  /\ st' = [st EXCEPT ![p] =
              Begin([Return(st[p]) EXCEPT !.srcResp = "value"], "testTarget",
                    NoData)]
  /\ UNCHANGED <<userCache, tgtUsers, tgtTickets, createLog, resolveLog, nreq>>

\* Mutant of BothAnswered: the source's answer is not looked at.
BothAnsweredTargetOnly(l) == TRUE

\* res.json reads sourceResponse.data.user.name and
\* targetResponse.data.user.name: a TypeError when one is undefined.
BothAnswered(l) == l.srcResp = "value"

\* The target answers: the success response, unless sourceResponse is
\* undefined.
TestTargetOk(p) ==
  LET l == Return(st[p]) IN
  /\ AtCall(p, "testTarget")
  /\ IF BothAnswered(l)
       THEN /\ st' = [st EXCEPT ![p] = Respond(l, TestSuccess)]
            /\ UNCHANGED resolveLog
       ELSE Raise(p, l)
  /\ UNCHANGED <<userCache, tgtUsers, tgtTickets, createLog, nreq>>

StepApi(p, e) ==
  \/ ReceiveProxy(p, e) \/ ReceiveEnvProxy(p, e) \/ ReceiveTest(p, e)
  \/ ProxyOk(p) \/ EnvProxyOk(p) \/ EnvProxyErr(p)
  \/ TestSourceOk(p) \/ TestTargetOk(p)
  \/ HttpErr(p) \/ Http429(p) \/ SleepDone(p)

\* One request to POST /proxy (of either server) or POST /api/test.
EnvApi == EnvOf({1}, 1, {}, AccountPairs, {}, {})

NextApi == \E p \in Procs : StepApi(p, EnvApi)

SpecApi == Init(EnvApi) /\ [][NextApi]_vars

WriteSites == {"createUser", "createTicket", "putComment"}

Count(seq, x) == Cardinality({i \in 1..Len(seq) : seq[i] = x})

AllErr(outs, n) == Len(outs) = n /\ \A i \in 1..n : outs[i] = "err"

\* The comment positions of the append calls a handler issued, in order.
RECURSIVE PutPositions(_)
PutPositions(calls) ==
  IF calls = <<>> THEN <<>>
  ELSE IF Head(calls).site = "putComment"
    THEN <<Head(calls).comment>> \o PutPositions(Tail(calls))
    ELSE PutPositions(Tail(calls))

\* The positions of the comments of a list whose channel is not the API
\* channel, in order.
RECURSIVE OrdinaryFrom(_, _)
OrdinaryFrom(list, i) ==
  IF i > Len(list) THEN <<>>
  ELSE IF list[i] = "api" THEN OrdinaryFrom(list, i + 1)
  ELSE <<i>> \o OrdinaryFrom(list, i + 1)

\* The request of slot p got its comment list from the source account.
CommentsFetched(p) ==
  \E i \in 1..Len(st[p].calls) :
     /\ st[p].calls[i].site = "getComments"
     /\ \/ i < Len(st[p].calls)
        \/ st[p].pc \in {"pace", "done"} /\ st[p].lastRes = "value"

\* The site of the latest remote call of slot p that has ended, when p is at
\* its first attempt of the next call, pacing or done.
LastSite(p) ==
  LET c == st[p].calls IN
  IF st[p].pc \in {"pace", "done"} THEN c[Len(c)].site ELSE c[Len(c) - 1].site

\* C1: a migrateTicket execution with dryRun=true issues no write call (user
\* creation, ticket creation, ticket update) to the target account.
C1_DryRunIssuesNoWrite ==
  \A p \in Procs :
    st[p].req.options.dryRun => ~Called(st[p], WriteSites)

\* C2: for every cache key (sourceUserId, sourceSubdomain, targetSubdomain),
\* at most one user-creation call is issued during the process lifetime,
\* over any interleaving of simultaneous migrateTicket executions.
C2_AtMostOneCreationPerKey ==
  \A i, j \in 1..Len(createLog) :
    createLog[i] = createLog[j] => i = j

C4_RateLimitKeepsBudget ==
  \A p \in Procs :
    (st[p].phase = "call" /\ st[p].attempt > 1)
    => st[p].attempt = 1 + Count(st[p].outcomes, "err")

\* C5: after non-429 failures on maxAttempts consecutive attempts the call
\* has ended by propagating the error: the operation was invoked exactly
\* maxAttempts times, no wait follows the final failure and no further
\* attempt is made.
C5_BackoffExhaustion ==
  \A p \in Procs :
    /\ Len(st[p].outcomes) <= maxRetries
    /\ AllErr(st[p].outcomes, maxRetries)
       => /\ st[p].lastRes = "throw"
          /\ st[p].phase \notin {"rateWait", "backoff"}
          /\ st[p].phase = "call" => st[p].attempt = 1
          /\ (st[p].pc = "done" /\ LastSite(p) \in {"getTicket", "createTicket"})
             => (st[p].result.status = 500 /\ ~st[p].result.success)

C5_Witness ==
  \E p \in Procs :
    /\ AllErr(st[p].outcomes, maxRetries)
    /\ st[p].lastRes = "throw"
    /\ st[p].pc = "done" /\ ~st[p].result.success

\* C6: a call of executeWithRetry that finishes either returns the value of a
\* successful attempt or fails with the last error; it never finishes
\* normally without a result of the operation.
C6_RetryReturnsResultOrThrows ==
  \A p \in Procs : st[p].lastRes \in {"none", "value", "throw"}

IsPrefix(a, b) == Len(a) <= Len(b) /\ \A i \in 1..Len(a) : a[i] = b[i]

\* C7: whenever the search in the target returns one or more users, no
\* creation call is issued; the id of the first returned user is stored in
\* the cache under the call's key and returned.
C7_EmailMatchPrecedence ==
  /\ \A p \in Procs : Len(st[p].found) > 0 => st[p].pc # "createUser"
  /\ \A i \in 1..Len(resolveLog) :
       LET e == resolveLog[i]
           key == ToString10(e.userId) \o <<"-">> \o e.acct.src
                    \o <<"-">> \o e.acct.tgt
       IN Len(e.found) > 0
          => /\ ~e.created
             /\ e.ret = e.found[1]
             /\ key \in DOMAIN userCache
             /\ userCache[key] = e.found[1]

C7_Witness ==
  \E i \in 1..Len(resolveLog) :
    /\ resolveLog[i].found = <<10>>
    /\ resolveLog[i].ret = 10
    /\ createLog = <<>>

\* C8: every user-creation call carries role agent when the source user's
\* role is admin and the source user's role otherwise; no creation call and
\* no created user carries role admin.
C8_RoleDowngrade ==
  /\ \A p \in Procs :
       st[p].pc = "createUser"
       => /\ st[p].sent.role =
               (IF st[p].user.role = "admin" THEN "agent" ELSE st[p].user.role)
          /\ st[p].sent.role # "admin"
  /\ \A t \in DOMAIN tgtUsers : \A i \in 1..Len(tgtUsers[t]) :
       tgtUsers[t][i].id > 10 => tgtUsers[t][i].role # "admin"

C8_Witness ==
  \E p \in Procs : st[p].pc = "createUser" /\ st[p].user.role = "admin"
                    /\ st[p].sent.role = "agent"

\* C9: when no remote call fails, the append calls issued are exactly one per
\* comment whose channel is not the API channel, none for an API-channel
\* comment, in the original order of the comments.
C9_CommentFilterAndOrder ==
  \A p \in Procs :
    ~st[p].failed
    => /\ st[p].attempt <= 1
       /\ IsPrefix(PutPositions(st[p].calls), OrdinaryFrom(st[p].comments, 1))
       /\ (st[p].pc = "done" /\ CommentsFetched(p))
          => PutPositions(st[p].calls) = OrdinaryFrom(st[p].comments, 1)

C9_Witness ==
  \E p \in Procs :
    /\ st[p].pc = "done" /\ ~st[p].failed
    /\ \E i \in 1..Len(st[p].comments) : st[p].comments[i] = "api"
    /\ Len(PutPositions(st[p].calls)) = 2
    /\ Len(st[p].comments) = 3

\* C10: when the append of a comment has failed with a non-429 error after
\* the retry policy is exhausted, the next comment that is not an API-channel
\* comment is attempted, and after the last one migrateTicket returns a
\* successful result with the source and target ticket ids.
C10_CommentFailureNotFatal ==
  \A p \in Procs :
    LET l == st[p]
        ended == l.pc = "done" \/ (l.phase = "call" /\ l.attempt = 1)
        k == IF l.pc = "done" THEN l.calls[Len(l.calls)].comment
             ELSE l.calls[Len(l.calls) - 1].comment
        later == {j \in 1..Len(l.comments) : j > k /\ l.comments[j] # "api"}
    IN /\ (ended /\ l.lastRes = "throw" /\ Len(l.calls) >= 2
             /\ LastSite(p) = "putComment")
          => IF later = {}
               THEN l.pc = "done"
               ELSE /\ l.pc = "putComment"
                    /\ l.sent.comment = Min(later)
       /\ (l.pc = "done" /\ Called(l, {"putComment"}))
          => /\ l.result.success /\ l.result.status = 200
             /\ l.result.ticketId = l.req.ticketId
             /\ l.result.targetTicketId = l.newTicketId
             /\ l.newTicketId # Null

C10_Witness ==
  \E p \in Procs :
    /\ st[p].pc = "putComment" /\ st[p].phase = "call" /\ st[p].attempt = 1
    /\ st[p].lastRes = "throw" /\ AllErr(st[p].outcomes, maxRetries)
    /\ PutPositions(st[p].calls) = <<1, 3>>

TargetSites == {"searchUser", "createUser", "createTicket", "putComment"}
UserSites == {"getUser", "searchUser", "createUser"}

\* The latest retryRequest call of slot p has ended without a value: it threw
\* or returned undefined.
GaveUp(p) == st[p].lastRes \in {"throw", "undefined"}

\* C11: when the fetch of the source ticket fails after the retry policy gave
\* up, migrateTicket answers {success: false, error, ticketId} and no call
\* has been made to the target account; when the creation of the target
\* ticket fails after the retry policy gave up, it answers the same and
\* comment replication is never started.
C11_FatalStages ==
  \A p \in Procs :
    LET l == st[p] IN
    /\ (Len(l.calls) >= 2 \/ (l.pc = "done" /\ l.result.success))
       => l.ticket # NoTicket
    /\ l.ticket = NoTicket => ~Called(l, TargetSites)
    /\ Called(l, {"getComments", "putComment"}) => l.newTicketId # Null
    /\ (l.pc = "done" /\ GaveUp(p)
          /\ LastSite(p) \in {"getTicket", "createTicket"})
       => /\ l.result.status = 500 /\ ~l.result.success
          /\ l.result.ticketId = l.req.ticketId
          /\ l.nresults = 1
          /\ ~Called(l, {"getComments", "putComment"})
          /\ LastSite(p) = "getTicket" => ~Called(l, TargetSites)

C11_Witness ==
  \E p \in Procs :
    /\ st[p].pc = "done" /\ LastSite(p) = "createTicket" /\ GaveUp(p)
    /\ st[p].req.options.migrateComments
    /\ ~st[p].result.success

\* C12: when a remote call inside resolveUser fails after the retry policy
\* gave up, resolveUser returns null without raising; with migrateUsers=true
\* and dryRun=false the ticket draft is then submitted to the target without
\* a requesterId override (and the execution can end in a success), with
\* dryRun=true the dry-run result is returned.
C12_ResolveFailureNotFatal ==
  \A p \in Procs :
    LET l == st[p] IN
    /\ (l.pc = "createTicket" /\ l.phase = "call" /\ l.attempt = 1
          /\ GaveUp(p) /\ LastSite(p) \in UserSites)
       => /\ l.requesterId = Null
          /\ l.sent.requester_id = Null
          /\ l.sent.subject = l.ticket.subject
          /\ resolveLog[Len(resolveLog)].ret = Null
    /\ (l.pc = "done" /\ LastSite(p) \in UserSites)
       => /\ l.req.options.dryRun
          /\ l.result.success /\ l.result.dryRun
    /\ (GaveUp(p) /\ LastSite(p) \in UserSites
          /\ (l.pc = "done" \/ (l.phase = "call" /\ l.attempt = 1)))
       => (l.req.options.dryRun \/ l.pc = "createTicket")

C12_Witness ==
  \E p \in Procs :
    /\ st[p].pc = "done" /\ st[p].result.success /\ ~st[p].result.dryRun
    /\ st[p].req.options.migrateUsers
    /\ st[p].requesterId = Null
    /\ Len(resolveLog) = 1 /\ resolveLog[1].ret = Null /\ resolveLog[1].created

ProxySites == {"proxy", "envProxy"}

\* The request of a /proxy handler passes the claim's validation.
Accepted(b) ==
  /\ ~MissingCredentials(b)
  /\ b.url.defined /\ StartsWith(b.url.str, ApiPrefix)

\* C13: genericProxy issues a remote call only when the credentials
\* (subdomain, email, token) are all present and the path begins with
\* /api/v2/; in every other case the request is rejected as a validation
\* error (400) at once, with no remote call and no retry; an accepted request
\* is forwarded through the retry policy.
C13_ProxyValidation ==
  \A p \in Procs :
    LET l == st[p] IN
    l.handler \in ProxySites =>
      /\ Called(l, ProxySites) => Accepted(l.body)
      /\ (l.pc = "done" /\ ~Accepted(l.body))
           => l.result.status = 400 /\ l.calls = <<>> /\ l.outcomes = <<>>
      /\ l.pc \in ProxySites => l.phase \in {"call", "rateWait", "backoff"}

\* C14: testConnections answers success exactly when both who-am-I calls
\* (source, then target, each through the retry policy) returned a response;
\* otherwise it answers one combined authentication failure (401), the same
\* whichever side failed.
C14_TestConnections ==
  \A p \in Procs :
    LET l == st[p] IN
    l.handler = "test" =>
      /\ l.pc \in {"testSource", "testTarget"}
           => l.phase \in {"call", "rateWait", "backoff"} /\ l.nresults = 0
      /\ l.pc \in {"testSource", "testTarget", "done"}
      /\ l.pc = "done" =>
           /\ l.nresults = 1
           /\ l.result \in {TestSuccess, TestFailure}
           /\ l.result = TestSuccess <=>
                /\ l.srcResp = "value"
                /\ LastSite(p) = "testTarget" /\ l.lastRes = "value"

C14_Witness ==
  \E p \in Procs :
    /\ st[p].handler = "test" /\ st[p].pc = "done"
    /\ st[p].srcResp = "undefined" /\ st[p].lastRes = "value"
    /\ st[p].result = TestFailure

\* C15: the user cache is append-only under every interleaving of concurrent
\* resolveUser calls: once a key is mapped to a target identifier, it stays
\* in the cache and stays mapped to that identifier.
C15_CacheAppendOnly ==
  [][\A k \in DOMAIN userCache :
       k \in DOMAIN userCache' /\ userCache'[k] = userCache[k]]_vars

\* The entries of resolveLog are calls with different (userId, source,
\* target) triples.
OtherTriple(i, j) ==
  \/ resolveLog[i].userId # resolveLog[j].userId
  \/ resolveLog[i].acct # resolveLog[j].acct

\* C16: the cache is keyed by the triple (userId, source subdomain, target
\* subdomain): a call returns a cached identifier without remote calls only
\* when an earlier call with the same triple stored it; calls with different
\* triples never share an entry, also when a subdomain contains "-".
C16_KeyedByTriple ==
  \A j \in 1..Len(resolveLog) :
    (~resolveLog[j].remote /\ resolveLog[j].ret # Null)
    => \E i \in 1..(j - 1) :
         /\ ~OtherTriple(i, j)
         /\ resolveLog[i].ret = resolveLog[j].ret

\* C17: every suspension inside executeWithRetry follows a failed attempt;
\* after a 429 it lasts the retry-after seconds of the response (60 when the
\* header is absent), and after the n-th non-429 failure of the call (n from
\* 1, 429s not counted) it lasts 2^n seconds.
C17_WaitSchedule ==
  \A p \in Procs :
    LET l == st[p] IN
    /\ l.phase \in {"rateWait", "backoff"}
       => /\ l.outcomes # <<>>
          /\ l.outcomes[Len(l.outcomes)] =
               (IF l.phase = "rateWait" THEN "r429" ELSE "err")
    /\ l.phase = "rateWait" => l.sleepMs \in {60 * 1000, 2 * 1000}
    /\ l.phase = "backoff"
       => l.sleepMs = 1000 * Pow2(Count(l.outcomes, "err"))

SiteRank(site) ==
  CASE site = "getTicket" -> 1 [] site = "getUser" -> 2
    [] site = "searchUser" -> 3 [] site = "createUser" -> 4
    [] site = "createTicket" -> 5 [] site = "getComments" -> 6
    [] site = "putComment" -> 7

InFlight(l) == IF l.phase \in {"call", "rateWait", "backoff"} THEN 1 ELSE 0

\* C18: within one migrateTicket execution the remote calls are issued in
\* the order fetch, resolve requester, create ticket, replicate comments,
\* never going back; every call but the latest has ended, so at most one is
\* in flight; a comment is appended only after the ticket creation succeeded,
\* and only after the append of the previous comment has ended.
C18_LinearPipeline ==
  \A p \in Procs :
    LET l == st[p]
        c == l.calls
    IN /\ c # <<>> => c[1].site = "getTicket"
       /\ \A i \in 1..(Len(c) - 1) :
            \/ SiteRank(c[i].site) < SiteRank(c[i + 1].site)
            \/ /\ c[i].site = "putComment" /\ c[i + 1].site = "putComment"
               /\ c[i].comment < c[i + 1].comment
       /\ Len(c) - l.nended = InFlight(l)
       /\ Called(l, {"getComments", "putComment"})
            => /\ l.newTicketId # Null
               /\ tgtTickets[l.req.acct.tgt] >= 1
       /\ Called(l, {"createTicket"}) => l.ticket # NoTicket

C18_Witness ==
  \E p \in Procs :
    /\ st[p].pc = "putComment" /\ st[p].phase = "call"
    /\ Len(PutPositions(st[p].calls)) = 2
    /\ Called(st[p], {"createUser"})

\* The cache key of an entry of resolveLog.
KeyOf(i) == CacheKey(resolveLog[i].userId, resolveLog[i].acct)

\* C19: a resolveUser call that returns null leaves the cache as it was: the
\* cache holds exactly the keys of the calls that returned an identifier,
\* each mapped to that identifier and never to null; a call whose key no
\* earlier call resolved performs the remote resolution (again).
C19_FailureLeavesCache ==
  /\ \A k \in DOMAIN userCache :
       /\ userCache[k] # Null
       /\ \E i \in 1..Len(resolveLog) :
            KeyOf(i) = k /\ resolveLog[i].ret = userCache[k]
  /\ \A i \in 1..Len(resolveLog) :
       /\ resolveLog[i].ret # Null
            => /\ KeyOf(i) \in DOMAIN userCache
               /\ userCache[KeyOf(i)] = resolveLog[i].ret
       /\ (\A h \in 1..(i - 1) : KeyOf(h) = KeyOf(i) => resolveLog[h].ret = Null)
            => resolveLog[i].remote

C19_Witness ==
  /\ Len(resolveLog) = 2
  /\ KeyOf(1) = KeyOf(2)
  /\ resolveLog[1].ret = Null /\ resolveLog[1].created
  /\ resolveLog[2].remote /\ resolveLog[2].ret # Null
  /\ userCache[KeyOf(2)] = resolveLog[2].ret

\* C20: if every remote call is eventually answered and every wait elapses,
\* each migrateTicket execution eventually delivers a result, whatever the
\* outcomes of its calls (429 at every attempt included), and it delivers
\* exactly one: none before it ends, one when it has ended, never two.
C20_Termination ==
  /\ \A p \in Procs : (st[p].pc \notin {"idle", "done"}) ~> (st[p].pc = "done")
  /\ [](\A p \in Procs :
          /\ st[p].pc \notin {"idle", "done"} => st[p].nresults = 0
          /\ st[p].pc = "done" => st[p].nresults = 1
          /\ st[p].nresults <= 1)

C20_Witness ==
  \E p \in Procs :
    /\ st[p].pc = "done" /\ st[p].nresults = 1
    /\ LastSite(p) = "createTicket"
    /\ st[p].outcomes = <<"r429", "r429", "r429">>
    /\ Count(st[p].calls, [site |-> "getTicket", comment |-> 0]) = 1

====
